---- MODULE Spec2Model ----
(***************************************************************************)
(* Model of the slow-wifi diagnostic harness.                              *)
(*                                                                         *)
(* Spec : one run of network_optimizer_test.py (main -> run_all_tests),    *)
(*        one step per external command / probe, with one cancellation     *)
(*        signal (KeyboardInterrupt) deliverable between any two steps and *)
(*        an unhandled error possible in any probe.  Setting commands      *)
(*        succeed (sudo has been verified by check_sudo).                  *)
(* SpecMonitor : one run of jitter-check.py (analyze_lan), one step per    *)
(*        statement of the loop body, with one KeyboardInterrupt           *)
(*        deliverable between any two statements.                          *)
(* SpecSamples : the loop of analyze_lan, one step per whole iteration,    *)
(*        for the properties of the classification of sample sequences.    *)
(* SpecReport : NetworkOptimizer.generate_report applied to result lists.  *)
(* SpecPing : NetworkOptimizer.run_ping_test for the baseline experiment,  *)
(*        one step per ping with its outcome.                              *)
(* SpecFail : Spec with every command of apply_setting allowed to fail.    *)
(***************************************************************************)
EXTENDS Integers, Sequences, FiniteSets, TLC

\* ------------------------------------------------------------------ bounds
\* probes analyze_lan issues in SpecMonitor before the loop is cut off
MaxProbes == 3

\* iterations of the loop of analyze_lan in SpecSamples
MaxSamples == 5

\* length of the result lists generate_report is applied to in SpecReport
MaxResults == 4

\* Probes per experiment.  The source sets 200 (network_optimizer_test.py:21);
\* the loop is the same for every count, the model runs it with a small one.
PINGS_PER_TEST == 2

\* ------------------------------------------------------------ host values
None == "None"

\* values net.inet.tcp.delayed_ack can hold on the host
DelayedAckValues == 0 .. 3
\* values net.inet.tcp.doautorcvbuf can hold on the host
AutoRcvBufValues == 0 .. 1

DigitStr == <<"0", "1", "2", "3">>

\* f"{n}" / the number sysctl prints
ToStr(n) == DigitStr[n + 1]

IsNumeric(s) == \E n \in 0 .. 3 : ToStr(n) = s

\* the number sysctl -w parses out of key=<s>
ParseInt(s) == CHOOSE n \in 0 .. 3 : ToStr(n) = s

\* ---------------------------------------------------------------- registry
SETTINGS ==
  << [name |-> "TCP Delayed ACK", key |-> "net.inet.tcp.delayed_ack",
      enable |-> "3", disable |-> "0"],
     [name |-> "TCP Send/Recv Autotuning", key |-> "net.inet.tcp.doautorcvbuf",
      enable |-> "1", disable |-> "0"] >>

RegistryNames == {SETTINGS[k].name : k \in 1 .. Len(SETTINGS)}

VARIABLES
  pc,               \* position of the process
  idx,              \* index of the `for setting in SETTINGS` loops
  i,                \* probes issued so far in the running run_ping_test
  host,             \* live host configuration
  host0,            \* host configuration when the process started
  sudo_ok,          \* environment: `sudo -n true` succeeds
  blueutil,         \* environment: blueutil is installed
  has_blueutil,     \* NetworkOptimizer.has_blueutil
  original_value,   \* SettingState.original_value per registry setting
  original_states,  \* NetworkOptimizer.original_states
  results,          \* NetworkOptimizer.results
  applied,          \* settings disabled by apply_setting and not re-enabled
  configs,          \* `applied` at the time each result was appended
  exc,              \* exception propagating through run_all_tests
  frame,            \* caller of the running restore_original_states
  sigint,           \* the cancellation signal has been delivered
  exit_code,        \* process exit status, -1 while running
  captures,         \* calls of save_original_states
  restores,         \* completed calls of restore_original_states
  writes,           \* setting-writing commands issued to the host
  reports,          \* calls of generate_report
  mon,              \* state of analyze_lan (jitter-check.py)
  report,           \* the report built by generate_report
  probe             \* locals of the running run_ping_test

vars == << pc, idx, i, host, host0, sudo_ok, blueutil, has_blueutil,
           original_value, original_states, results, applied, configs,
           exc, frame, sigint, exit_code, captures, restores, writes,
           reports, mon, report, probe >>

\* ------------------------------------------------------ external commands
\* sysctl <key>
sysctl_get(h, key) ==
  IF key = "net.inet.tcp.delayed_ack"
  THEN << key, ":", ToStr(h.delayed_ack) >>
  ELSE << key, ":", ToStr(h.doautorcvbuf) >>

\* sudo sysctl -w <key>=<val>; a value that is no number is rejected
sysctl_set(h, key, val) ==
  IF ~IsNumeric(val) THEN h
  ELSE IF key = "net.inet.tcp.delayed_ack"
       THEN [h EXCEPT !.delayed_ack = ParseInt(val)]
       ELSE [h EXCEPT !.doautorcvbuf = ParseInt(val)]

\* ifconfig awdl0
ifconfig_get(h) ==
  IF h.awdl0 = "up" THEN << "awdl0:", "status: active" >>
  ELSE << "awdl0:", "status: inactive" >>

\* sudo ifconfig awdl0 up|down
ifconfig_set(h, dir) == [h EXCEPT !.awdl0 = dir]

\* blueutil --power
blueutil_get(h) == ToStr(h.bt_power)

\* blueutil --power <val>
blueutil_set(h, val) == [h EXCEPT !.bt_power = ParseInt(val)]

\* system_profiler SPBluetoothDataType
system_profiler_get(h) ==
  IF h.bt_power = 1 THEN << "Bluetooth:", "State: On" >>
  ELSE << "Bluetooth:", "State: Off" >>

\* ----------------------------------------------------------------- parsers
parse_sysctl(output) ==
  IF \E k \in 1 .. Len(output) : output[k] = ":"
  THEN output[Len(output)]
  ELSE IF output = << >> THEN "" ELSE output[1]

parse_awdl(output) ==
  IF \E k \in 1 .. Len(output) : output[k] = "status: active"
  THEN "on" ELSE "off"

get_awdl_state(h) == parse_awdl(ifconfig_get(h))

get_bluetooth_state(h, installed) ==
  IF installed
  THEN (IF blueutil_get(h) = "1" THEN "on" ELSE "off")
  ELSE (IF \E k \in 1 .. Len(system_profiler_get(h)) :
              system_profiler_get(h)[k] = "State: On"
        THEN "on" ELSE "off")

\* ------------------------------------------------------------ dictionaries
EmptyDict == [x \in {} |-> None]

Put(d, k, v) == [x \in DOMAIN d \cup {k} |-> IF x = k THEN v ELSE d[x]]

Get(d, k) == IF k \in DOMAIN d THEN d[k] ELSE None

\* ------------------------------------------------------------- State Guard
\* variant: the sysctl branch ignores `enable`
apply_setting_no_reset(h, name, enable, hb) ==
  CASE name = "TCP Delayed ACK" ->
         sysctl_set(h, "net.inet.tcp.delayed_ack", "0")
    [] name = "TCP Send/Recv Autotuning" ->
         sysctl_set(h, "net.inet.tcp.doautorcvbuf", "0")
    [] name = "AWDL" ->
         ifconfig_set(h, IF enable THEN "up" ELSE "down")
    [] name = "Bluetooth" ->
         (IF hb THEN blueutil_set(h, IF enable THEN "1" ELSE "0") ELSE h)
    [] OTHER -> h

\* NetworkOptimizer.apply_setting: the host after the call
apply_setting(h, name, enable, hb) ==
  CASE name = "TCP Delayed ACK" ->
         sysctl_set(h, "net.inet.tcp.delayed_ack", IF enable THEN "3" ELSE "0")
    [] name = "TCP Send/Recv Autotuning" ->
         sysctl_set(h, "net.inet.tcp.doautorcvbuf", IF enable THEN "1" ELSE "0")
    [] name = "AWDL" ->
         ifconfig_set(h, IF enable THEN "up" ELSE "down")
    [] name = "Bluetooth" ->
         (IF hb THEN blueutil_set(h, IF enable THEN "1" ELSE "0") ELSE h)
    [] OTHER -> h

\* whether apply_setting issues a command for this name
apply_issues(name, hb) ==
  name \in {"TCP Delayed ACK", "TCP Send/Recv Autotuning", "AWDL"}
  \/ (name = "Bluetooth" /\ hb)

\* variant: the loop writes the registry's enable value, not the captured one
restore_setting_default(h, s, ov) ==
  IF ov[s.name] # None
  THEN (IF s.name \in {"TCP Delayed ACK", "TCP Send/Recv Autotuning"}
        THEN sysctl_set(h, s.key, s.enable) ELSE h)
  ELSE h

\* one iteration of the loop of restore_original_states
restore_setting(h, s, ov) ==
  IF ov[s.name] # None
  THEN (IF s.name \in {"TCP Delayed ACK", "TCP Send/Recv Autotuning"}
        THEN sysctl_set(h, s.key, ov[s.name]) ELSE h)
  ELSE h

\* variant: the interface is flipped instead of brought up
restore_awdl_toggle(h, os) ==
  IF Get(os, "AWDL") = "on"
  THEN ifconfig_set(h, IF h.awdl0 = "up" THEN "down" ELSE "up") ELSE h

\* "Restore AWDL" of restore_original_states
restore_awdl(h, os) ==
  IF Get(os, "AWDL") = "on" THEN ifconfig_set(h, "up") ELSE h

\* "Restore Bluetooth" of restore_original_states
restore_bluetooth(h, os, hb) ==
  IF hb
  THEN blueutil_set(h, IF Get(os, "Bluetooth") = "on" THEN "1" ELSE "0")
  ELSE h

\* a whole call of restore_original_states
restore_original_states(h, ov, os, hb) ==
  restore_bluetooth(
    restore_awdl(
      restore_setting(restore_setting(h, SETTINGS[1], ov), SETTINGS[2], ov),
      os),
    os, hb)

\* what save_original_states reads from a host
read_back(h, installed) ==
  [n \in RegistryNames \cup {"AWDL", "Bluetooth"} |->
     CASE n = "TCP Delayed ACK" ->
            parse_sysctl(sysctl_get(h, "net.inet.tcp.delayed_ack"))
       [] n = "TCP Send/Recv Autotuning" ->
            parse_sysctl(sysctl_get(h, "net.inet.tcp.doautorcvbuf"))
       [] n = "AWDL" -> get_awdl_state(h)
       [] OTHER -> get_bluetooth_state(h, installed)]

\* variant: results.insert(0, r)
results_prepend(rs, r) == << r >> \o rs

\* self.results.append(r)
results_append(rs, r) == Append(rs, r)

\* ------------------------------------------------------------ control flow
SavePcs == {"run_all_tests", "save_settings", "save_awdl", "save_bt"}

ProbePcs == {"t1_probe", "t2_probe", "t3_probe", "t4_probe", "t5_probe"}

ApplyPcs == {"t2_apply", "t2_reset", "t3_apply", "t3_reset", "t4_apply",
             "t4_reset", "t5_apply_dack", "t5_apply_awdl", "t5_apply_bt"}

CheckPcs == {"t4_check", "t5_check"}

TryPcs == ProbePcs \cup ApplyPcs \cup CheckPcs

RestorePcs == {"restore_settings", "restore_awdl", "restore_bt",
               "restore_return"}

\* the statement after p in the try block of run_all_tests
NextPc(p, hb) ==
  CASE p = "t1_probe"      -> "t2_apply"
    [] p = "t2_apply"      -> "t2_probe"
    [] p = "t2_probe"      -> "t2_reset"
    [] p = "t2_reset"      -> "t3_apply"
    [] p = "t3_apply"      -> "t3_probe"
    [] p = "t3_probe"      -> "t3_reset"
    [] p = "t3_reset"      -> "t4_check"
    [] p = "t4_check"      -> (IF hb THEN "t4_apply" ELSE "t5_apply_dack")
    [] p = "t4_apply"      -> "t4_probe"
    [] p = "t4_probe"      -> "t4_reset"
    [] p = "t4_reset"      -> "t5_apply_dack"
    [] p = "t5_apply_dack" -> "t5_apply_awdl"
    [] p = "t5_apply_awdl" -> "t5_check"
    [] p = "t5_check"      -> (IF hb THEN "t5_apply_bt" ELSE "t5_probe")
    [] p = "t5_apply_bt"   -> "t5_probe"
    [] p = "t5_probe"      -> "restore_settings"

\* the arguments of the apply_setting call at p
ApplyArgs(p) ==
  CASE p = "t2_apply"      -> [name |-> "TCP Delayed ACK", enable |-> FALSE]
    [] p = "t2_reset"      -> [name |-> "TCP Delayed ACK", enable |-> TRUE]
    [] p = "t3_apply"      -> [name |-> "AWDL", enable |-> FALSE]
    [] p = "t3_reset"      -> [name |-> "AWDL", enable |-> TRUE]
    [] p = "t4_apply"      -> [name |-> "Bluetooth", enable |-> FALSE]
    [] p = "t4_reset"      -> [name |-> "Bluetooth", enable |-> TRUE]
    [] p = "t5_apply_dack" -> [name |-> "TCP Delayed ACK", enable |-> FALSE]
    [] p = "t5_apply_awdl" -> [name |-> "AWDL", enable |-> FALSE]
    [] p = "t5_apply_bt"   -> [name |-> "Bluetooth", enable |-> FALSE]

\* the arguments of the run_ping_test call at p
TestLabel(p) ==
  CASE p = "t1_probe" -> [setting_name |-> "Baseline", setting_value |-> "current"]
    [] p = "t2_probe" -> [setting_name |-> "TCP Delayed ACK", setting_value |-> "disabled"]
    [] p = "t3_probe" -> [setting_name |-> "AWDL", setting_value |-> "disabled"]
    [] p = "t4_probe" -> [setting_name |-> "Bluetooth", setting_value |-> "disabled"]
    [] p = "t5_probe" -> [setting_name |-> "All Optimizations", setting_value |-> "enabled"]

\* ======================================================= jitter-check.py
\* RTTs (ms) a successful probe can report
RTTS == {5, 6, 7, 12, 40, 41}

SPIKE_THRESHOLD == 15

\* the literal 5.0 of `elif current_jitter > 5.0`
JITTER_THRESHOLD == 5

\* rtt / prev_rtt holding Python's None
NoRtt == -1

\* result.stdout of one ping, as the tokens the regex can see
PingOutputs ==
  {<< [k |-> "bytes from", n |-> 64], [k |-> "time=", n |-> r] >> : r \in RTTS}
  \cup { << [k |-> "Request timeout for icmp_seq", n |-> 0] >>,
         << >>,
         << [k |-> "bytes from", n |-> 64], [k |-> "time<", n |-> 1] >> }

\* parse_time: re.search(r'time=([\d.]+)') - the first match or None
parse_time(output) ==
  IF \E k \in 1 .. Len(output) : output[k].k = "time="
  THEN output[CHOOSE k \in 1 .. Len(output) :
                /\ output[k].k = "time="
                /\ \A j \in 1 .. k - 1 : output[j].k # "time="].n
  ELSE NoRtt

Abs(x) == IF x < 0 THEN -x ELSE x

RECURSIVE Sum(_)
\* sum(seq)
Sum(seq) == IF seq = << >> THEN 0 ELSE seq[1] + Sum(Tail(seq))

RECURSIVE Max(_)
\* max(seq) of a non-empty sequence
Max(seq) ==
  IF Len(seq) = 1 THEN seq[1]
  ELSE LET t == Max(Tail(seq)) IN IF seq[1] > t THEN seq[1] ELSE t

\* round(num / den, digits) for num >= 0, as an integer count of 10^-digits
\* (ties to even)
Round(num, den, digits) ==
  LET scale == IF digits = 2 THEN 100 ELSE 10
      q == (num * scale) \div den
      r == (num * scale) % den
  IN IF 2 * r < den THEN q
     ELSE IF 2 * r > den THEN q + 1
     ELSE IF q % 2 = 0 THEN q ELSE q + 1

\* analyze_lan before the loop
MonitorStart ==
  [pc |-> "run",
   stats |-> [sent |-> 0, received |-> 0, rtts |-> << >>,
              jitter_values |-> << >>, spikes |-> 0,
              high_jitter_events |-> 0],
   prev_rtt |-> NoRtt, seq |-> 1,
   stdout |-> << >>, rtt |-> NoRtt, current_jitter |-> 0,
   status_msg |-> "OK",
   rows |-> << >>,
   interrupted |-> FALSE,
   emitted |-> << >>,
   exc |-> "none"]

\* the statements of the loop body
LoopPcs == {"run", "sent", "received", "append_rtt", "jitter", "analysis",
            "log", "loss", "next"}

\* result = subprocess.run(cmd, ...)
stmt_run(m, out) == [m EXCEPT !.stdout = out, !.pc = "sent"]

\* stats["sent"] += 1; rtt = parse_time(result.stdout); ...; if rtt is not None
stmt_sent(m) ==
  LET r == parse_time(m.stdout)
  IN [m EXCEPT !.stats.sent = @ + 1, !.rtt = r, !.current_jitter = 0,
               !.status_msg = "OK",
               !.pc = IF r # NoRtt THEN "received" ELSE "loss"]

\* stats["received"] += 1
stmt_received(m) == [m EXCEPT !.stats.received = @ + 1, !.pc = "append_rtt"]

\* stats["rtts"].append(rtt); if prev_rtt is not None
stmt_append_rtt(m) ==
  [m EXCEPT !.stats.rtts = Append(@, m.rtt),
            !.pc = IF m.prev_rtt # NoRtt THEN "jitter" ELSE "analysis"]

\* variant: the difference is taken without abs()
stmt_jitter_signed(m) ==
  LET j == m.rtt - m.prev_rtt
  IN [m EXCEPT !.current_jitter = j,
               !.stats.jitter_values = Append(@, j),
               !.pc = "analysis"]

\* current_jitter = abs(rtt - prev_rtt); stats["jitter_values"].append(...)
stmt_jitter(m) ==
  LET j == Abs(m.rtt - m.prev_rtt)
  IN [m EXCEPT !.current_jitter = j,
               !.stats.jitter_values = Append(@, j),
               !.pc = "analysis"]

\* variant: the jitter test comes before the spike test
stmt_analysis_jitter_first(m) ==
  IF m.current_jitter > JITTER_THRESHOLD
  THEN [m EXCEPT !.status_msg = "HIGH JITTER",
                 !.stats.high_jitter_events = @ + 1, !.pc = "log"]
  ELSE IF m.rtt > SPIKE_THRESHOLD
       THEN [m EXCEPT !.status_msg = "LAG SPIKE", !.stats.spikes = @ + 1,
                      !.pc = "log"]
       ELSE [m EXCEPT !.status_msg = "OK", !.pc = "log"]

\* "Analysis Logic": LAG SPIKE, HIGH JITTER or OK
stmt_analysis(m) ==
  IF m.rtt > SPIKE_THRESHOLD
  THEN [m EXCEPT !.status_msg = "LAG SPIKE", !.stats.spikes = @ + 1,
                 !.pc = "log"]
  ELSE IF m.current_jitter > JITTER_THRESHOLD
       THEN [m EXCEPT !.status_msg = "HIGH JITTER",
                      !.stats.high_jitter_events = @ + 1, !.pc = "log"]
       ELSE [m EXCEPT !.status_msg = "OK", !.pc = "log"]

\* logger.log(log_line, row_color); prev_rtt = rtt
stmt_log(m) ==
  [m EXCEPT !.rows = Append(@, [seq |-> m.seq, rtt |-> m.rtt,
                                jitter |-> m.current_jitter,
                                status |-> m.status_msg]),
            !.prev_rtt = m.rtt,
            !.pc = "next"]

\* variant: a timeout is stored as an RTT of 0
stmt_loss_appends_zero(m) ==
  [m EXCEPT !.rows = Append(@, [seq |-> m.seq, rtt |-> NoRtt,
                                jitter |-> m.current_jitter,
                                status |-> "PACKET LOSS"]),
            !.stats.rtts = Append(@, 0),
            !.prev_rtt = NoRtt,
            !.pc = "next"]

\* variant: the loop gives up after a lost probe
stmt_loss_stops(m) ==
  [m EXCEPT !.rows = Append(@, [seq |-> m.seq, rtt |-> NoRtt,
                                jitter |-> m.current_jitter,
                                status |-> "PACKET LOSS"]),
            !.prev_rtt = NoRtt,
            !.pc = "stopped"]

\* variant: the loss branch leaves prev_rtt as it was
stmt_loss_keeps_prev(m) ==
  [m EXCEPT !.rows = Append(@, [seq |-> m.seq, rtt |-> NoRtt,
                                jitter |-> m.current_jitter,
                                status |-> "PACKET LOSS"]),
            !.pc = "next"]

\* else: the PACKET LOSS row; prev_rtt = None
stmt_loss(m) ==
  [m EXCEPT !.rows = Append(@, [seq |-> m.seq, rtt |-> NoRtt,
                                jitter |-> m.current_jitter,
                                status |-> "PACKET LOSS"]),
            !.prev_rtt = NoRtt,
            !.pc = "next"]

\* seq += 1; time.sleep(INTERVAL)
stmt_next(m) == [m EXCEPT !.seq = @ + 1, !.pc = "run"]

\* the statement at m.pc, for every statement after subprocess.run
Step(m) ==
  CASE m.pc = "sent"       -> stmt_sent(m)
    [] m.pc = "received"   -> stmt_received(m)
    [] m.pc = "append_rtt" -> stmt_append_rtt(m)
    [] m.pc = "jitter"     -> stmt_jitter(m)
    [] m.pc = "analysis"   -> stmt_analysis(m)
    [] m.pc = "log"        -> stmt_log(m)
    [] m.pc = "loss"       -> stmt_loss(m)
    [] m.pc = "next"       -> stmt_next(m)

RECURSIVE RunToNext(_)
\* the rest of the loop body, up to the next subprocess.run
RunToNext(m) == IF m.pc = "run" THEN m ELSE RunToNext(Step(m))

\* variant: an average jitter of exactly 5 already counts as POOR
json_summary_ge(st) ==
  LET lost == st.sent - st.received
      loss_positive == lost * 100 > 0
      jn == Len(st.jitter_values)
      js == Sum(st.jitter_values)
      jitter_over_5 == jn > 0 /\ js >= 5 * jn
      jitter_over_4 == jn > 0 /\ js > 4 * jn
  IN [duration_seconds |-> st.sent * 2,
      total_packets |-> st.sent,
      packet_loss_pct |-> Round(lost * 100, st.sent, 2),
      avg_latency_ms |-> IF st.rtts # << >>
                         THEN Round(Sum(st.rtts), Len(st.rtts), 2) ELSE 0,
      max_latency_ms |-> IF st.rtts # << >> THEN Max(st.rtts) * 100 ELSE 0,
      avg_jitter_ms |-> IF jn > 0 THEN Round(js, jn, 2) ELSE 0,
      stability_score |-> IF loss_positive \/ jitter_over_5
                          THEN "POOR" ELSE "GOOD",
      diagnosis |->
        (IF loss_positive THEN << "Packet Loss detected" >> ELSE << >>)
        \o (IF jitter_over_4 THEN << "High Jitter" >> ELSE << >>)
        \o (IF 20 * st.spikes > st.sent
            THEN << "Frequent Latency Spikes" >> ELSE << >>)]

\* the summary object of the KeyboardInterrupt handler, for sent > 0;
\* packet_loss_pct, avg_latency_ms, max_latency_ms and avg_jitter_ms count
\* hundredths, duration_seconds counts tenths
json_summary(st) ==
  LET lost == st.sent - st.received
      loss_positive == lost * 100 > 0
      jn == Len(st.jitter_values)
      js == Sum(st.jitter_values)
      jitter_over_5 == jn > 0 /\ js > 5 * jn
      jitter_over_4 == jn > 0 /\ js > 4 * jn
  IN [duration_seconds |-> st.sent * 2,
      total_packets |-> st.sent,
      packet_loss_pct |-> Round(lost * 100, st.sent, 2),
      avg_latency_ms |-> IF st.rtts # << >>
                         THEN Round(Sum(st.rtts), Len(st.rtts), 2) ELSE 0,
      max_latency_ms |-> IF st.rtts # << >> THEN Max(st.rtts) * 100 ELSE 0,
      avg_jitter_ms |-> IF jn > 0 THEN Round(js, jn, 2) ELSE 0,
      stability_score |-> IF loss_positive \/ jitter_over_5
                          THEN "POOR" ELSE "GOOD",
      diagnosis |->
        (IF loss_positive THEN << "Packet Loss detected" >> ELSE << >>)
        \o (IF jitter_over_4 THEN << "High Jitter" >> ELSE << >>)
        \o (IF 20 * st.spikes > st.sent
            THEN << "Frequent Latency Spikes" >> ELSE << >>)]

\* "SUMMARY GENERATION" after the short-circuit: loss_pct divides by sent
summarize(m) ==
  IF m.stats.sent = 0
  THEN [m EXCEPT !.exc = "ZeroDivisionError", !.pc = "stopped"]
  ELSE [m EXCEPT !.emitted = Append(@, json_summary(m.stats)),
                 !.pc = "stopped"]

\* variant: the short-circuit tests received instead of sent
on_interrupt_received_guard(m) ==
  IF m.stats.received = 0 THEN [m EXCEPT !.pc = "stopped"] ELSE summarize(m)

\* variant: no short-circuit
on_interrupt_no_guard(m) == summarize(m)

\* except KeyboardInterrupt: `if stats["sent"] == 0: return`, else the summary
on_interrupt(m) ==
  IF m.stats.sent = 0 THEN [m EXCEPT !.pc = "stopped"] ELSE summarize(m)

\* the report before generate_report has run
NoReport == << >>

\* run_ping_test: rtts = [], lost = 0, no ping run yet; `issued` counts the
\* ping commands run
ProbeStart == [rtts |-> << >>, lost |-> 0, stdout |-> << >>, issued |-> 0]

\* -------------------------------------------------------------------- Init
Hosts ==
  [delayed_ack : DelayedAckValues, doautorcvbuf : AutoRcvBufValues,
   awdl0 : {"up", "down"}, bt_power : {0, 1}]

Init ==
  /\ pc = "check_sudo"
  /\ idx = 1
  /\ i = 0
  /\ host \in Hosts
  /\ host0 = host
  /\ sudo_ok \in BOOLEAN
  /\ blueutil \in BOOLEAN
  /\ has_blueutil = FALSE
  /\ original_value = [n \in RegistryNames |-> None]
  /\ original_states = EmptyDict
  /\ results = << >>
  /\ applied = {}
  /\ configs = << >>
  /\ exc = "none"
  /\ frame = "none"
  /\ sigint = FALSE
  /\ exit_code = -1
  /\ captures = 0
  /\ restores = 0
  /\ writes = 0
  /\ reports = 0
  /\ mon = MonitorStart
  /\ report = NoReport
  /\ probe = ProbeStart

\* ----------------------------------------------------------------- actions
\* variant: the failed check is logged and the run goes on
check_sudo_no_exit ==
  /\ pc = "check_sudo"
  /\ pc' = "construct"
  /\ UNCHANGED << idx, i, host, host0, sudo_ok, blueutil, has_blueutil,
                  original_value, original_states, results, applied, configs,
                  exc, frame, sigint, exit_code, captures, restores, writes,
                  reports >>
  /\ UNCHANGED << mon, report, probe >>

\* main: check_sudo() - sys.exit(1) unless `sudo -n true` succeeds
check_sudo ==
  /\ pc = "check_sudo"
  /\ IF sudo_ok
     THEN pc' = "construct" /\ UNCHANGED exit_code
     ELSE pc' = "exited" /\ exit_code' = 1
  /\ UNCHANGED << idx, i, host, host0, sudo_ok, blueutil, has_blueutil,
                  original_value, original_states, results, applied, configs,
                  exc, frame, sigint, captures, restores, writes, reports >>
  /\ UNCHANGED << mon, report, probe >>

\* main: optimizer = NetworkOptimizer()
construct ==
  /\ pc = "construct"
  /\ has_blueutil' = blueutil
  /\ pc' = "run_all_tests"
  /\ UNCHANGED << idx, i, host, host0, sudo_ok, blueutil,
                  original_value, original_states, results, applied, configs,
                  exc, frame, sigint, exit_code, captures, restores, writes,
                  reports >>
  /\ UNCHANGED << mon, report, probe >>

\* run_all_tests: header, then the call of save_original_states
run_all_tests ==
  /\ pc = "run_all_tests"
  /\ captures' = captures + 1
  /\ idx' = 1
  /\ pc' = "save_settings"
  /\ UNCHANGED << i, host, host0, sudo_ok, blueutil, has_blueutil,
                  original_value, original_states, results, applied, configs,
                  exc, frame, sigint, exit_code, restores, writes, reports >>
  /\ UNCHANGED << mon, report, probe >>

\* save_original_states: one iteration of `for setting in SETTINGS`
save_setting ==
  /\ pc = "save_settings"
  /\ LET s == SETTINGS[idx]
         v == parse_sysctl(sysctl_get(host, s.key))
     IN /\ original_value' = [original_value EXCEPT ![s.name] = v]
        /\ original_states' = Put(original_states, s.name, v)
  /\ IF idx < Len(SETTINGS)
     THEN idx' = idx + 1 /\ pc' = pc
     ELSE idx' = 1 /\ pc' = "save_awdl"
  /\ UNCHANGED << i, host, host0, sudo_ok, blueutil, has_blueutil,
                  results, applied, configs, exc, frame, sigint, exit_code,
                  captures, restores, writes, reports >>
  /\ UNCHANGED << mon, report, probe >>

\* save_original_states: AWDL state
save_awdl ==
  /\ pc = "save_awdl"
  /\ original_states' = Put(original_states, "AWDL", get_awdl_state(host))
  /\ pc' = "save_bt"
  /\ UNCHANGED << idx, i, host, host0, sudo_ok, blueutil, has_blueutil,
                  original_value, results, applied, configs, exc, frame,
                  sigint, exit_code, captures, restores, writes, reports >>
  /\ UNCHANGED << mon, report, probe >>

\* save_original_states: Bluetooth state, then the try block is entered
save_bluetooth ==
  /\ pc = "save_bt"
  /\ original_states' =
       Put(original_states, "Bluetooth", get_bluetooth_state(host, blueutil))
  /\ pc' = "t1_probe"
  /\ UNCHANGED << idx, i, host, host0, sudo_ok, blueutil, has_blueutil,
                  original_value, results, applied, configs, exc, frame,
                  sigint, exit_code, captures, restores, writes, reports >>
  /\ UNCHANGED << mon, report, probe >>

\* run_ping_test: one iteration of `for i in range(PINGS_PER_TEST)`
ping ==
  /\ pc \in ProbePcs
  /\ i < PINGS_PER_TEST
  /\ i' = i + 1
  /\ UNCHANGED << pc, idx, host, host0, sudo_ok, blueutil, has_blueutil,
                  original_value, original_states, results, applied, configs,
                  exc, frame, sigint, exit_code, captures, restores, writes,
                  reports >>
  /\ UNCHANGED << mon, report, probe >>

\* run_ping_test returns and run_all_tests appends the result
append_result ==
  /\ pc \in ProbePcs
  /\ i = PINGS_PER_TEST
  /\ results' = results_append(results, TestLabel(pc))
  /\ configs' = Append(configs, applied)
  /\ i' = 0
  /\ idx' = 1
  /\ pc' = NextPc(pc, has_blueutil)
  /\ frame' = IF pc = "t5_probe" THEN "finally" ELSE frame
  /\ UNCHANGED << host, host0, sudo_ok, blueutil, has_blueutil,
                  original_value, original_states, applied, exc, sigint,
                  exit_code, captures, restores, writes, reports >>
  /\ UNCHANGED << mon, report, probe >>

\* run_all_tests: one self.apply_setting(name, enable=...) statement
apply_step ==
  /\ pc \in ApplyPcs
  /\ LET a == ApplyArgs(pc)
     IN /\ host' = apply_setting(host, a.name, a.enable, has_blueutil)
        /\ writes' = IF apply_issues(a.name, has_blueutil)
                     THEN writes + 1 ELSE writes
        /\ applied' = IF a.enable THEN applied \ {a.name}
                      ELSE IF apply_issues(a.name, has_blueutil)
                           THEN applied \cup {a.name} ELSE applied
  /\ pc' = NextPc(pc, has_blueutil)
  /\ UNCHANGED << idx, i, host0, sudo_ok, blueutil, has_blueutil,
                  original_value, original_states, results, configs, exc,
                  frame, sigint, exit_code, captures, restores, reports >>
  /\ UNCHANGED << mon, report, probe >>

\* run_all_tests: `if self.has_blueutil:` of test 4 and of test 5
check_blueutil ==
  /\ pc \in CheckPcs
  /\ pc' = NextPc(pc, has_blueutil)
  /\ UNCHANGED << idx, i, host, host0, sudo_ok, blueutil, has_blueutil,
                  original_value, original_states, results, applied, configs,
                  exc, frame, sigint, exit_code, captures, restores, writes,
                  reports >>
  /\ UNCHANGED << mon, report, probe >>

\* restore_original_states: one iteration of `for setting in SETTINGS`
restore_setting_step ==
  /\ pc = "restore_settings"
  /\ LET s == SETTINGS[idx]
     IN /\ host' = restore_setting(host, s, original_value)
        /\ writes' = IF original_value[s.name] # None
                     THEN writes + 1 ELSE writes
  /\ IF idx < Len(SETTINGS)
     THEN idx' = idx + 1 /\ pc' = pc
     ELSE idx' = 1 /\ pc' = "restore_awdl"
  /\ UNCHANGED << i, host0, sudo_ok, blueutil, has_blueutil, original_value,
                  original_states, results, applied, configs, exc, frame,
                  sigint, exit_code, captures, restores, reports >>
  /\ UNCHANGED << mon, report, probe >>

\* restore_original_states: "Restore AWDL"
restore_awdl_step ==
  /\ pc = "restore_awdl"
  /\ host' = restore_awdl(host, original_states)
  /\ writes' = IF Get(original_states, "AWDL") = "on"
               THEN writes + 1 ELSE writes
  /\ pc' = "restore_bt"
  /\ UNCHANGED << idx, i, host0, sudo_ok, blueutil, has_blueutil,
                  original_value, original_states, results, applied, configs,
                  exc, frame, sigint, exit_code, captures, restores, reports >>
  /\ UNCHANGED << mon, report, probe >>

\* restore_original_states: "Restore Bluetooth"
restore_bluetooth_step ==
  /\ pc = "restore_bt"
  /\ host' = restore_bluetooth(host, original_states, has_blueutil)
  /\ writes' = IF has_blueutil THEN writes + 1 ELSE writes
  /\ pc' = "restore_return"
  /\ UNCHANGED << idx, i, host0, sudo_ok, blueutil, has_blueutil,
                  original_value, original_states, results, applied, configs,
                  exc, frame, sigint, exit_code, captures, restores, reports >>
  /\ UNCHANGED << mon, report, probe >>

\* variant: the report is generated whatever the finally block re-raises
finally_to_report_any ==
  /\ pc = "restore_return" /\ frame = "finally"
  /\ restores' = restores + 1
  /\ frame' = "none"
  /\ pc' = "report"
  /\ UNCHANGED << idx, i, host, host0, sudo_ok, blueutil, has_blueutil,
                  original_value, original_states, results, applied, configs,
                  exc, sigint, exit_code, captures, writes, reports >>
  /\ UNCHANGED << mon, report, probe >>

\* run_all_tests: the finally block ends with no exception pending
finally_to_report ==
  /\ pc = "restore_return" /\ frame = "finally" /\ exc = "none"
  /\ restores' = restores + 1
  /\ frame' = "none"
  /\ pc' = "report"
  /\ UNCHANGED << idx, i, host, host0, sudo_ok, blueutil, has_blueutil,
                  original_value, original_states, results, applied, configs,
                  exc, sigint, exit_code, captures, writes, reports >>
  /\ UNCHANGED << mon, report, probe >>

\* run_all_tests: the finally block re-raises an error; main does not catch it
finally_reraise ==
  /\ pc = "restore_return" /\ frame = "finally" /\ exc = "Error"
  /\ restores' = restores + 1
  /\ frame' = "none"
  /\ pc' = "exited"
  /\ exit_code' = 1
  /\ UNCHANGED << idx, i, host, host0, sudo_ok, blueutil, has_blueutil,
                  original_value, original_states, results, applied, configs,
                  exc, sigint, captures, writes, reports >>
  /\ UNCHANGED << mon, report, probe >>

\* run_all_tests: the finally block re-raises KeyboardInterrupt into main's
\* handler, which calls restore_original_states
finally_to_handler ==
  /\ pc = "restore_return" /\ frame = "finally" /\ exc = "KeyboardInterrupt"
  /\ restores' = restores + 1
  /\ frame' = "handler"
  /\ exc' = "none"
  /\ idx' = 1
  /\ pc' = "restore_settings"
  /\ UNCHANGED << i, host, host0, sudo_ok, blueutil, has_blueutil,
                  original_value, original_states, results, applied, configs,
                  sigint, exit_code, captures, writes, reports >>
  /\ UNCHANGED << mon, report, probe >>

\* main: the handler's restore returns, sys.exit(1)
handler_exit ==
  /\ pc = "restore_return" /\ frame = "handler"
  /\ restores' = restores + 1
  /\ frame' = "none"
  /\ pc' = "exited"
  /\ exit_code' = 1
  /\ UNCHANGED << idx, i, host, host0, sudo_ok, blueutil, has_blueutil,
                  original_value, original_states, results, applied, configs,
                  exc, sigint, captures, writes, reports >>
  /\ UNCHANGED << mon, report, probe >>

\* run_all_tests: self.generate_report() builds the report and writes it to
\* the report file
generate_report_step ==
  /\ pc = "report"
  /\ reports' = reports + 1
  /\ pc' = "report_summary"
  /\ UNCHANGED << idx, i, host, host0, sudo_ok, blueutil, has_blueutil,
                  original_value, original_states, results, applied, configs,
                  exc, frame, sigint, exit_code, captures, restores, writes >>
  /\ UNCHANGED << mon, report, probe >>

\* generate_report prints the summary table and the recommendations, then
\* run_all_tests and main return
print_summary ==
  /\ pc = "report_summary"
  /\ pc' = "exited"
  /\ exit_code' = 0
  /\ UNCHANGED << idx, i, host, host0, sudo_ok, blueutil, has_blueutil,
                  original_value, original_states, results, applied, configs,
                  exc, frame, sigint, captures, restores, writes, reports >>
  /\ UNCHANGED << mon, report, probe >>

\* run_ping_test: subprocess.run raises (it is not wrapped by run_cmd); the
\* error leaves the try block through the finally block
probe_error ==
  /\ pc \in ProbePcs
  /\ i < PINGS_PER_TEST
  /\ exc' = "Error"
  /\ frame' = "finally"
  /\ i' = 0
  /\ idx' = 1
  /\ pc' = "restore_settings"
  /\ UNCHANGED << host, host0, sudo_ok, blueutil, has_blueutil,
                  original_value, original_states, results, applied, configs,
                  sigint, exit_code, captures, restores, writes, reports >>
  /\ UNCHANGED << mon, report, probe >>

\* KeyboardInterrupt in main outside its try block: the process dies
interrupt_uncaught ==
  /\ ~sigint
  /\ pc \in {"check_sudo", "construct"}
  /\ sigint' = TRUE
  /\ pc' = "exited"
  /\ exit_code' = 130
  /\ UNCHANGED << idx, i, host, host0, sudo_ok, blueutil, has_blueutil,
                  original_value, original_states, results, applied, configs,
                  exc, frame, captures, restores, writes, reports >>
  /\ UNCHANGED << mon, report, probe >>

\* KeyboardInterrupt inside the try block of run_all_tests: the finally block
interrupt_in_try ==
  /\ ~sigint
  /\ pc \in TryPcs
  /\ sigint' = TRUE
  /\ exc' = "KeyboardInterrupt"
  /\ frame' = "finally"
  /\ i' = 0
  /\ idx' = 1
  /\ pc' = "restore_settings"
  /\ UNCHANGED << host, host0, sudo_ok, blueutil, has_blueutil,
                  original_value, original_states, results, applied, configs,
                  exit_code, captures, restores, writes, reports >>
  /\ UNCHANGED << mon, report, probe >>

\* variant: main's handler exits without calling restore_original_states
interrupt_to_handler_no_restore ==
  /\ ~sigint
  /\ \/ pc \in SavePcs
     \/ pc \in RestorePcs /\ frame = "finally"
     \/ pc \in {"report", "report_summary"}
  /\ sigint' = TRUE
  /\ exc' = "none"
  /\ frame' = "none"
  /\ i' = 0
  /\ idx' = 1
  /\ pc' = "exited"
  /\ exit_code' = 1
  /\ UNCHANGED << host, host0, sudo_ok, blueutil, has_blueutil,
                  original_value, original_states, results, applied, configs,
                  captures, restores, writes, reports >>
  /\ UNCHANGED << mon, report, probe >>

\* KeyboardInterrupt in run_all_tests outside its try block (before or during
\* save_original_states, inside the finally block, in generate_report): it
\* reaches main's handler, which calls restore_original_states
interrupt_to_handler ==
  /\ ~sigint
  /\ \/ pc \in SavePcs
     \/ pc \in RestorePcs /\ frame = "finally"
     \/ pc \in {"report", "report_summary"}
  /\ sigint' = TRUE
  /\ exc' = "none"
  /\ frame' = "handler"
  /\ i' = 0
  /\ idx' = 1
  /\ pc' = "restore_settings"
  /\ UNCHANGED << host, host0, sudo_ok, blueutil, has_blueutil,
                  original_value, original_states, results, applied, configs,
                  exit_code, captures, restores, writes, reports >>
  /\ UNCHANGED << mon, report, probe >>

Next ==
  \/ check_sudo
  \/ construct
  \/ run_all_tests
  \/ save_setting
  \/ save_awdl
  \/ save_bluetooth
  \/ ping
  \/ append_result
  \/ apply_step
  \/ check_blueutil
  \/ restore_setting_step
  \/ restore_awdl_step
  \/ restore_bluetooth_step
  \/ finally_to_report
  \/ finally_reraise
  \/ finally_to_handler
  \/ handler_exit
  \/ generate_report_step
  \/ print_summary
  \/ probe_error
  \/ interrupt_uncaught
  \/ interrupt_in_try
  \/ interrupt_to_handler

Spec == Init /\ [][Next]_vars

TypeOK ==
  /\ host \in Hosts
  /\ pc \in SavePcs \cup TryPcs \cup RestorePcs
            \cup {"check_sudo", "construct", "report", "report_summary",
                  "exited"}
  /\ i \in 0 .. PINGS_PER_TEST
  /\ idx \in 1 .. Len(SETTINGS)
  /\ exit_code \in {-1, 0, 1, 130}

\* ================================== run_all_tests with failing commands
\* variant: a failed command raises out of apply_setting
apply_fail_raises ==
  /\ pc \in ApplyPcs
  /\ apply_issues(ApplyArgs(pc).name, has_blueutil)
  /\ writes' = writes + 1
  /\ exc' = "Error"
  /\ frame' = "finally"
  /\ i' = 0
  /\ idx' = 1
  /\ pc' = "restore_settings"
  /\ UNCHANGED << host, host0, sudo_ok, blueutil, has_blueutil,
                  original_value, original_states, results, applied, configs,
                  sigint, exit_code, captures, restores, reports >>
  /\ UNCHANGED << mon, report, probe >>

\* run_all_tests: one self.apply_setting(name, enable=...) statement whose
\* command fails: run_cmd returns a non-zero code (or catches the exception)
\* and apply_setting ignores what run_cmd returns; the host is not changed
apply_fail ==
  /\ pc \in ApplyPcs
  /\ apply_issues(ApplyArgs(pc).name, has_blueutil)
  /\ writes' = writes + 1
  /\ pc' = NextPc(pc, has_blueutil)
  /\ UNCHANGED << idx, i, host, host0, sudo_ok, blueutil, has_blueutil,
                  original_value, original_states, results, applied, configs,
                  exc, frame, sigint, exit_code, captures, restores,
                  reports >>
  /\ UNCHANGED << mon, report, probe >>

NextFail ==
  \/ Next
  \/ apply_fail

SpecFail == Init /\ [][NextFail]_vars

\* ============================================== analyze_lan as a process
orchVars == << pc, idx, i, host, host0, sudo_ok, blueutil, has_blueutil,
               original_value, original_states, results, applied, configs,
               exc, frame, sigint, exit_code, captures, restores, writes,
               reports >>

\* network_optimizer_test.py is not running: its state before main, on a
\* host with the default settings
OrchestratorIdle ==
  /\ pc = "check_sudo"
  /\ idx = 1
  /\ i = 0
  /\ host = [delayed_ack |-> 3, doautorcvbuf |-> 1, awdl0 |-> "up",
             bt_power |-> 1]
  /\ host0 = host
  /\ sudo_ok = TRUE
  /\ blueutil = FALSE
  /\ has_blueutil = FALSE
  /\ original_value = [n \in RegistryNames |-> None]
  /\ original_states = EmptyDict
  /\ results = << >>
  /\ applied = {}
  /\ configs = << >>
  /\ exc = "none"
  /\ frame = "none"
  /\ sigint = FALSE
  /\ exit_code = -1
  /\ captures = 0
  /\ restores = 0
  /\ writes = 0
  /\ reports = 0

InitMonitor ==
  /\ OrchestratorIdle
  /\ mon = MonitorStart
  /\ report = NoReport
  /\ probe = ProbeStart

\* analyze_lan: subprocess.run of one ping
run_probe ==
  /\ mon.pc = "run"
  /\ mon.stats.sent < MaxProbes
  /\ \E out \in PingOutputs : mon' = stmt_run(mon, out)
  /\ UNCHANGED << orchVars, report, probe >>

\* analyze_lan: one statement of the loop body after subprocess.run
loop_statement ==
  /\ mon.pc \in LoopPcs \ {"run"}
  /\ mon' = Step(mon)
  /\ UNCHANGED << orchVars, report, probe >>

\* KeyboardInterrupt raised inside the try block of analyze_lan
keyboard_interrupt ==
  /\ mon.pc \in LoopPcs
  /\ ~mon.interrupted
  /\ mon' = [mon EXCEPT !.interrupted = TRUE, !.pc = "handler"]
  /\ UNCHANGED << orchVars, report, probe >>

\* analyze_lan: the except KeyboardInterrupt block
handler ==
  /\ mon.pc = "handler"
  /\ mon' = on_interrupt(mon)
  /\ UNCHANGED << orchVars, report, probe >>

NextMonitor ==
  \/ run_probe
  \/ loop_statement
  \/ keyboard_interrupt
  \/ handler

SpecMonitor == InitMonitor /\ [][NextMonitor]_vars

\* analyze_lan: one whole iteration of `while True`
iteration ==
  /\ mon.pc = "run"
  /\ mon.stats.sent < MaxSamples
  /\ \E out \in PingOutputs : mon' = RunToNext(stmt_run(mon, out))
  /\ UNCHANGED << orchVars, report, probe >>

NextSamples == iteration

SpecSamples == InitMonitor /\ [][NextSamples]_vars

\* ==================================================== generate_report
RECURSIVE Min(_)
\* min(seq) of a non-empty sequence
Min(seq) ==
  IF Len(seq) = 1 THEN seq[1]
  ELSE LET t == Min(Tail(seq)) IN IF seq[1] < t THEN seq[1] ELSE t

\* the consecutive differences [abs(rtts[i] - rtts[i-1]) for i in 1..len-1]
jitter_list(rtts) ==
  [k \in 1 .. (IF Len(rtts) = 0 THEN 0 ELSE Len(rtts) - 1) |->
     Abs(rtts[k + 1] - rtts[k])]

\* run_ping_test, "Calculate statistics": the TestResult for the RTTs of the
\* successful probes; latencies and jitter count hundredths of a ms,
\* spike_percentage counts tenths of a percent; packets_sent and packets_lost
\* are not read by generate_report's analysis and are left out
test_result(label, rtts) ==
  IF rtts # << >>
  THEN LET jitter_values == jitter_list(rtts)
           spike_count ==
             Cardinality({k \in 1 .. Len(rtts) : rtts[k] > SPIKE_THRESHOLD})
       IN [setting_name |-> label.setting_name,
           setting_value |-> label.setting_value,
           avg_latency_ms |-> Round(Sum(rtts), Len(rtts), 2),
           max_latency_ms |-> Max(rtts) * 100,
           min_latency_ms |-> Min(rtts) * 100,
           avg_jitter_ms |-> IF jitter_values # << >>
                             THEN Round(Sum(jitter_values),
                                        Len(jitter_values), 2)
                             ELSE 0,
           spike_count |-> spike_count,
           spike_percentage |-> Round(spike_count * 100, Len(rtts), 1),
           raw_rtts |-> rtts]
  ELSE [setting_name |-> label.setting_name,
        setting_value |-> label.setting_value,
        avg_latency_ms |-> 0, max_latency_ms |-> 0, min_latency_ms |-> 0,
        avg_jitter_ms |-> 0, spike_count |-> 0, spike_percentage |-> 0,
        raw_rtts |-> << >>]

\* f"{x:.1f}" of x tenths
Fmt1(x) ==
  (IF x < 0 THEN "-" ELSE "")
  \o ToString(Abs(x) \div 10) \o "." \o ToString(Abs(x) % 10)

\* f"{x:.2f}" of x hundredths
Fmt2(x) ==
  (IF x < 0 THEN "-" ELSE "")
  \o ToString(Abs(x) \div 100) \o "."
  \o ToString((Abs(x) % 100) \div 10) \o ToString(Abs(x) % 10)

\* variant: an improvement of exactly 5 is recommended too
recommends_ge(baseline, result) ==
  baseline.spike_percentage - result.spike_percentage >= 50

\* improvement = baseline.spike_percentage - result.spike_percentage;
\* if improvement > 5
recommends(baseline, result) ==
  baseline.spike_percentage - result.spike_percentage > 50

\* the recommendation appended for a result
recommendation(baseline, result) ==
  [setting |-> result.setting_name,
   action |-> "Set to " \o result.setting_value,
   spike_reduction |->
     Fmt1(baseline.spike_percentage - result.spike_percentage) \o "%",
   jitter_change |->
     Fmt2(baseline.avg_jitter_ms - result.avg_jitter_ms) \o "ms"]

RECURSIVE recommendations_from(_, _)
\* for result in self.results[1:], from index k on
recommendations_from(rs, k) ==
  IF k > Len(rs) THEN << >>
  ELSE (IF recommends(rs[1], rs[k])
        THEN << recommendation(rs[1], rs[k]) >> ELSE << >>)
       \o recommendations_from(rs, k + 1)

\* r.avg_latency_ms > 0
is_valid(r) == r.avg_latency_ms > 0

\* valid_results = [r for r in self.results if r.avg_latency_ms > 0]
valid_results(rs) == SelectSeq(rs, is_valid)

\* min(seq, key = the field f): the first element with the least key
min_by(seq, f) ==
  LET k == CHOOSE k \in 1 .. Len(seq) :
             /\ \A j \in 1 .. Len(seq) : seq[k][f] <= seq[j][f]
             /\ \A j \in 1 .. k - 1 : seq[j][f] > seq[k][f]
  IN seq[k]

\* generate_report: report["analysis"] (absent: << >>) and
\* report["recommendations"]
generate_report(rs) ==
  LET valid == valid_results(rs)
  IN IF valid # << >>
     THEN [analysis |->
             << [best_avg_latency |->
                   [setting |-> min_by(valid, "avg_latency_ms").setting_name,
                    value |-> min_by(valid, "avg_latency_ms").avg_latency_ms],
                 best_spike_rate |->
                   [setting |-> min_by(valid, "spike_percentage").setting_name,
                    value |-> min_by(valid, "spike_percentage").spike_percentage],
                 best_jitter |->
                   [setting |-> min_by(valid, "avg_jitter_ms").setting_name,
                    value |-> min_by(valid, "avg_jitter_ms").avg_jitter_ms]] >>,
           recommendations |-> recommendations_from(rs, 2)]
     ELSE [analysis |-> << >>, recommendations |-> << >>]

\* n probes answering 10 ms followed by k probes answering 40 ms
Profile(n, k) == [j \in 1 .. n + k |-> IF j <= n THEN 10 ELSE 40]

\* the RTTs of the successful probes of one experiment: none, all 0.00 ms,
\* and 0 %, 30 %, 5 %, 25 % and 20 % of spikes
ReportProfiles ==
  { << >>, << 0, 0 >>, Profile(2, 0), Profile(7, 3), Profile(19, 1),
    Profile(3, 1), Profile(4, 1) }

\* the labels of the battery, in order
ResultLabels ==
  << TestLabel("t1_probe"), TestLabel("t2_probe"), TestLabel("t3_probe"),
     TestLabel("t4_probe"), TestLabel("t5_probe") >>

\* the result lists of length n
ResultLists(n) ==
  { [k \in 1 .. n |-> test_result(ResultLabels[k], f[k])] :
      f \in [1 .. n -> ReportProfiles] }

InitReport ==
  /\ pc = "report"
  /\ idx = 1
  /\ i = 0
  /\ host = [delayed_ack |-> 3, doautorcvbuf |-> 1, awdl0 |-> "up",
             bt_power |-> 1]
  /\ host0 = host
  /\ sudo_ok = TRUE
  /\ blueutil = FALSE
  /\ has_blueutil = FALSE
  /\ original_value = [n \in RegistryNames |-> None]
  /\ original_states = EmptyDict
  /\ \E n \in 0 .. MaxResults : results \in ResultLists(n)
  /\ applied = {}
  /\ configs = << >>
  /\ exc = "none"
  /\ frame = "none"
  /\ sigint = FALSE
  /\ exit_code = -1
  /\ captures = 0
  /\ restores = 0
  /\ writes = 0
  /\ reports = 0
  /\ mon = MonitorStart
  /\ report = NoReport
  /\ probe = ProbeStart

\* generate_report builds the report from self.results
build_report ==
  /\ pc = "report"
  /\ report = NoReport
  /\ report' = << generate_report(results) >>
  /\ reports' = reports + 1
  /\ pc' = "exited"
  /\ exit_code' = 0
  /\ UNCHANGED << idx, i, host, host0, sudo_ok, blueutil, has_blueutil,
                  original_value, original_states, results, applied, configs,
                  exc, frame, sigint, captures, restores, writes, mon,
                  probe >>

NextReport == build_report

SpecReport == InitReport /\ [][NextReport]_vars

\* ====================================================== run_ping_test
\* variant: a probe without a time= is not counted as lost
probe_once_uncounted(l, out) ==
  LET rtt == parse_time(out)
  IN [l EXCEPT !.stdout = out,
               !.issued = @ + 1,
               !.rtts = IF rtt # NoRtt THEN Append(@, rtt) ELSE @]

\* one iteration of `for i in range(PINGS_PER_TEST)`: subprocess.run of one
\* ping, re.search(r'time=([\d.]+)') on its stdout (the expression of
\* parse_time), then rtts.append or lost += 1
probe_once(l, out) ==
  LET rtt == parse_time(out)
  IN [l EXCEPT !.stdout = out,
               !.issued = @ + 1,
               !.rtts = IF rtt # NoRtt THEN Append(@, rtt) ELSE @,
               !.lost = IF rtt = NoRtt THEN @ + 1 ELSE @]

\* the TestResult run_ping_test returns
TestResult(label, l) ==
  [packets_sent |-> PINGS_PER_TEST, packets_lost |-> l.lost]
    @@ test_result(label, l.rtts)

\* run_all_tests has captured the settings and calls run_ping_test for the
\* baseline
InitPing ==
  /\ pc = "t1_probe"
  /\ idx = 1
  /\ i = 0
  /\ host = [delayed_ack |-> 3, doautorcvbuf |-> 1, awdl0 |-> "up",
             bt_power |-> 1]
  /\ host0 = host
  /\ sudo_ok = TRUE
  /\ blueutil = FALSE
  /\ has_blueutil = FALSE
  /\ original_value =
       [n \in RegistryNames |-> read_back(host, blueutil)[n]]
  /\ original_states = read_back(host, blueutil)
  /\ results = << >>
  /\ applied = {}
  /\ configs = << >>
  /\ exc = "none"
  /\ frame = "none"
  /\ sigint = FALSE
  /\ exit_code = -1
  /\ captures = 1
  /\ restores = 0
  /\ writes = 0
  /\ reports = 0
  /\ mon = MonitorStart
  /\ report = NoReport
  /\ probe = ProbeStart

\* run_ping_test: one iteration of the loop with the outcome of its ping
ping_probe ==
  /\ pc \in ProbePcs
  /\ i < PINGS_PER_TEST
  /\ \E out \in PingOutputs : probe' = probe_once(probe, out)
  /\ i' = i + 1
  /\ UNCHANGED << pc, idx, host, host0, sudo_ok, blueutil, has_blueutil,
                  original_value, original_states, results, applied, configs,
                  exc, frame, sigint, exit_code, captures, restores, writes,
                  reports, mon, report >>

\* run_ping_test computes the statistics and returns; run_all_tests appends
\* the result
ping_return ==
  /\ pc \in ProbePcs
  /\ i = PINGS_PER_TEST
  /\ results' = results_append(results, TestResult(TestLabel(pc), probe))
  /\ configs' = Append(configs, applied)
  /\ i' = 0
  /\ probe' = ProbeStart
  /\ pc' = NextPc(pc, has_blueutil)
  /\ UNCHANGED << idx, host, host0, sudo_ok, blueutil, has_blueutil,
                  original_value, original_states, applied, exc, frame,
                  sigint, exit_code, captures, restores, writes, reports,
                  mon, report >>

NextPing ==
  \/ ping_probe
  \/ ping_return

SpecPing == InitPing /\ [][NextPing]_vars

\* ================================================================== claims
AllNames == RegistryNames \cup {"AWDL", "Bluetooth"}

\* the settings the orchestrator can perturb on this host
Perturbable(hb) ==
  RegistryNames \cup {"AWDL"} \cup (IF hb THEN {"Bluetooth"} ELSE {})

\* the battery in its fixed order
Battery(hb) ==
  IF hb
  THEN << "Baseline", "TCP Delayed ACK", "AWDL", "Bluetooth",
          "All Optimizations" >>
  ELSE << "Baseline", "TCP Delayed ACK", "AWDL", "All Optimizations" >>

\* the setting holds its disabled value on host h
IsDisabled(h, name) ==
  CASE name = "TCP Delayed ACK" -> h.delayed_ack = 0
    [] name = "TCP Send/Recv Autotuning" -> h.doautorcvbuf = 0
    [] name = "AWDL" -> h.awdl0 = "down"
    [] name = "Bluetooth" -> h.bt_power = 0

\* the setting holds its enabled value on host h
IsEnabled(h, name) ==
  CASE name = "TCP Delayed ACK" -> h.delayed_ack = 3
    [] name = "TCP Send/Recv Autotuning" -> h.doautorcvbuf = 1
    [] name = "AWDL" -> h.awdl0 = "up"
    [] name = "Bluetooth" -> h.bt_power = 1

\* C1: once a run that received the cancellation signal has terminated,
\* every host setting holds the value it had when the run started.
C1_HostRestoredAfterCancel ==
  (pc = "exited" /\ sigint) => host = host0

\* C2: after an uninterrupted full battery and the final restore, the values
\* read back from the host equal the captured ones.
C2_ReadBackEqualsCaptured ==
  (~sigint /\ exc = "none" /\ restores >= 1)
    => read_back(host, blueutil) = original_states

C2_Witness ==
  /\ pc = "exited" /\ exit_code = 0 /\ restores = 1
  /\ Len(results) = 5
  /\ host0.delayed_ack = 2 /\ host0.awdl0 = "down" /\ host0.bt_power = 1

\* C3: whenever the process has exited after capture started, a call of
\* restore_original_states has completed.
C3_RestoreBeforeExit ==
  (pc = "exited" /\ captures >= 1) => restores >= 1

C3_Witness ==
  /\ pc = "exited" /\ sigint /\ captures = 1 /\ restores = 1
  /\ "Bluetooth" \notin DOMAIN original_states

\* C4: restoring a restored host changes nothing, in every reachable state;
\* and once one restore has completed, no step of a following restore changes
\* the host or the captured state.
C4_RestoreIdempotent ==
  /\ [](LET once == restore_original_states(host, original_value,
                                            original_states, has_blueutil)
        IN restore_original_states(once, original_value, original_states,
                                   has_blueutil) = once)
  /\ [][(pc \in RestorePcs /\ restores >= 1)
          => /\ host' = host
             /\ original_states' = original_states
             /\ original_value' = original_value]_vars

C4_Witness ==
  /\ pc = "exited" /\ restores = 2 /\ applied # {}
  /\ host0.awdl0 = "up"

\* C5: when the privilege check fails the process exits non-zero with nothing
\* captured, nothing written and nothing restored.
C5_PrivilegeFailureIsFatal ==
  (~sudo_ok /\ pc # "check_sudo")
    => /\ pc = "exited"
       /\ exit_code = (IF sigint THEN 130 ELSE 1)
       /\ captures = 0 /\ writes = 0 /\ restores = 0
       /\ original_states = EmptyDict
       /\ \A n \in RegistryNames : original_value[n] = None
       /\ host = host0

C5_Witness ==
  ~sudo_ok /\ pc = "exited" /\ exit_code = 1 /\ ~sigint

\* C6: capture runs at most once, and no setting-writing command is issued
\* before every registry setting and both toggles have a captured entry.
C6_CaptureBeforeFirstWrite ==
  /\ captures <= 1
  /\ writes > 0 => DOMAIN original_states = AllNames

\* C7: the running experiment is always the next of the fixed battery, the
\* results are the battery's prefix in order, the baseline runs on the
\* untouched host and a completed run holds the whole battery.
C7_FixedSequentialBattery ==
  LET B == Battery(has_blueutil)
  IN /\ Len(results) <= Len(B)
     /\ \A k \in 1 .. Len(results) : results[k].setting_name = B[k]
     /\ pc \in ProbePcs
          => /\ Len(results) < Len(B)
             /\ TestLabel(pc).setting_name = B[Len(results) + 1]
     /\ pc = "t1_probe" => (writes = 0 /\ host = host0 /\ applied = {})
     /\ results # << >> => results[1].setting_name = "Baseline"
     /\ (pc = "exited" /\ exit_code = 0)
          => (Len(results) = Len(B) /\ Len(configs) = Len(B))

C7_Witness ==
  pc = "exited" /\ exit_code = 0 /\ has_blueutil /\ Len(results) = 5

\* C8: in a complete battery every perturbable setting has exactly one
\* experiment in which it alone is disabled.
C8_OneExperimentPerSetting ==
  (pc = "exited" /\ exit_code = 0)
    => \A s \in Perturbable(has_blueutil) :
         Cardinality({k \in 1 .. Len(configs) : configs[k] = {s}}) = 1

\* C9: during the probes of a single-setting experiment the setting holds its
\* disabled value, and it holds its enabled value again when the next
\* experiment starts and while the next single-setting experiment probes.
C9_DisabledWhileProbedThenEnabled ==
  /\ pc = "t2_probe" => IsDisabled(host, "TCP Delayed ACK")
  /\ pc = "t3_probe" => IsDisabled(host, "AWDL")
  /\ pc = "t4_probe" => IsDisabled(host, "Bluetooth")
  /\ pc \in {"t3_apply", "t3_probe"} => IsEnabled(host, "TCP Delayed ACK")
  /\ pc \in {"t4_check", "t4_apply", "t4_probe"} => IsEnabled(host, "AWDL")
  /\ (pc = "t5_apply_dack" /\ has_blueutil) => IsEnabled(host, "Bluetooth")
  /\ pc = "t5_apply_dack"
       => (IsEnabled(host, "TCP Delayed ACK") /\ IsEnabled(host, "AWDL"))

C9_Witness ==
  /\ pc = "t5_apply_dack" /\ has_blueutil /\ Len(results) = 4
  /\ host0.delayed_ack = 0 /\ host0.awdl0 = "down" /\ host0.bt_power = 0

\* C10: while the combined experiment probes, every perturbable setting holds
\* its disabled value, and after the completed run all of them are restored.
C10_AllDisabledInCombined ==
  /\ pc = "t5_probe"
       => \A s \in Perturbable(has_blueutil) : IsDisabled(host, s)
  /\ (pc = "exited" /\ exit_code = 0) => host = host0

\* ------------------------------------------------- samples of analyze_lan
\* the RTT column of the rows, NoRtt for a PACKET LOSS row
RowRtts(rows) == [k \in 1 .. Len(rows) |-> rows[k].rtt]

RowStatuses(rows) == [k \in 1 .. Len(rows) |-> rows[k].status]

\* row k reports a successful probe
IsSuccess(rows, k) == rows[k].rtt # NoRtt

\* the sample before row k exists and was successful
HasPrev(rows, k) == k > 1 /\ IsSuccess(rows, k - 1)

\* the rows k of successful probes whose previous sample was successful
Continuing(rows) ==
  {k \in 1 .. Len(rows) : IsSuccess(rows, k) /\ HasPrev(rows, k)}

\* C13: every sample's status follows the priority LagSpike (RTT > 15),
\* HighJitter (a carried previous RTT exists and |RTT - previous| > 5), OK;
\* a failed probe is PacketLoss; and [5, 6, 40, 41, 7] yields
\* [OK, OK, LagSpike, LagSpike, HighJitter].
C13_StatusPriority ==
  /\ \A k \in 1 .. Len(mon.rows) :
       mon.rows[k].status =
         (IF ~IsSuccess(mon.rows, k) THEN "PACKET LOSS"
          ELSE IF mon.rows[k].rtt > 15 THEN "LAG SPIKE"
          ELSE IF HasPrev(mon.rows, k)
                  /\ Abs(mon.rows[k].rtt - mon.rows[k - 1].rtt) > 5
               THEN "HIGH JITTER"
          ELSE "OK")
  /\ RowRtts(mon.rows) = << 5, 6, 40, 41, 7 >>
       => RowStatuses(mon.rows)
            = << "OK", "OK", "LAG SPIKE", "LAG SPIKE", "HIGH JITTER" >>

C13_Witness ==
  RowRtts(mon.rows) = << 5, 6, 40, 41, 7 >>

C15_LossResetsJitter ==
  /\ \A k \in 1 .. Len(mon.rows) :
       ~IsSuccess(mon.rows, k)
         => (mon.rows[k].jitter = 0 /\ mon.rows[k].status = "PACKET LOSS")
  /\ mon.prev_rtt =
       (IF mon.rows = << >> THEN NoRtt
        ELSE mon.rows[Len(mon.rows)].rtt)
  /\ \A k \in 1 .. Len(mon.rows) :
       (IsSuccess(mon.rows, k) /\ ~HasPrev(mon.rows, k))
         => (mon.rows[k].jitter = 0 /\ mon.rows[k].status # "HIGH JITTER")
  /\ Len(mon.stats.jitter_values) = Cardinality(Continuing(mon.rows))

C15_Witness ==
  /\ Len(mon.rows) = 3
  /\ RowRtts(mon.rows) = << 5, NoRtt, 12 >>
  /\ mon.rows[3].status = "OK"
  /\ mon.stats.jitter_values = << >>

\* the RTTs of the rows of successful probes, in order
SuccessRtts(rows) == SelectSeq(RowRtts(rows), LAMBDA r : r # NoRtt)

\* the PACKET LOSS rows
LossRows(rows) == {k \in 1 .. Len(rows) : ~IsSuccess(rows, k)}

\* C16 as stated: in every reachable state sent >= received and the RTT
\* collection holds exactly one entry per successful probe, none for a
\* PacketLoss sample, so that its length equals received.
C16_RttsMatchReceived ==
  /\ mon.stats.sent >= mon.stats.received
  /\ Len(mon.stats.rtts) = mon.stats.received
  /\ \A k \in 1 .. Len(mon.stats.rtts) : mon.stats.rtts[k] \in RTTS

\* C16 amended: sent >= received always; the RTT collection holds the RTTs of
\* the successful samples in order (plus the one being processed) and nothing
\* for PacketLoss samples; its length equals received except between
\* `received += 1` and `rtts.append`, where received is one larger - also in
\* a summary computed after a cancellation in that window.
C16_RttsMatchReceivedBetweenUpdates ==
  LET succ == SuccessRtts(mon.rows)
      n == Len(mon.stats.rtts)
  IN /\ mon.stats.sent >= mon.stats.received
     /\ n <= mon.stats.received /\ mon.stats.received <= n + 1
     /\ mon.pc \in LoopPcs \ {"append_rtt"} => n = mon.stats.received
     /\ \A k \in 1 .. n : mon.stats.rtts[k] \in RTTS
     /\ Len(succ) <= n /\ n <= Len(succ) + 1
     /\ \A k \in 1 .. Len(succ) : mon.stats.rtts[k] = succ[k]

C16_Witness ==
  /\ mon.pc = "stopped"
  /\ mon.stats.received = Len(mon.stats.rtts) + 1
  /\ LossRows(mon.rows) # {}
  /\ Len(mon.emitted) = 1

\* C17: the monitor is in its loop as long as no cancellation signal has been
\* delivered; a failed probe is recorded as exactly one PacketLoss row and the
\* loop goes on to the next probe; nothing but the signal leaves the loop.
C17_OnlyCancellationStops ==
  /\ [](~mon.interrupted => mon.pc \in LoopPcs)
  /\ [](mon.pc = "run" =>
          /\ Len(mon.rows) = mon.stats.sent
          /\ Cardinality(LossRows(mon.rows))
               = mon.stats.sent - mon.stats.received)
  /\ [][(mon.pc \in LoopPcs /\ mon'.pc \notin LoopPcs)
          => (~mon.interrupted /\ mon'.interrupted /\ mon'.pc = "handler")]_vars
  /\ [][(mon.pc = "loss" /\ ~mon'.interrupted)
          => /\ Len(mon'.rows) = Len(mon.rows) + 1
             /\ mon'.rows[Len(mon'.rows)].status = "PACKET LOSS"
             /\ mon'.pc = "next"]_vars
  /\ [][(mon.pc = "next" /\ ~mon'.interrupted) => mon'.pc = "run"]_vars

C17_Witness ==
  /\ mon.pc = "run" /\ ~mon.interrupted
  /\ Len(mon.rows) = 3
  /\ \A k \in 1 .. 3 : mon.rows[k].status = "PACKET LOSS"

\* C18: a monitor stopped after at least one probe was counted has emitted the
\* summary object exactly once; a summary is never emitted twice.
C18_SummaryOnceAfterProbes ==
  /\ Len(mon.emitted) <= 1
  /\ mon.emitted # << >> => mon.pc = "stopped"
  /\ (mon.pc = "stopped" /\ mon.stats.sent >= 1)
       => /\ Len(mon.emitted) = 1
          /\ mon.emitted[1].total_packets = mon.stats.sent
          /\ mon.exc = "none"

C18_Witness ==
  /\ mon.pc = "stopped" /\ mon.interrupted
  /\ mon.stats.sent = 2 /\ mon.stats.received = 0
  /\ Len(mon.rows) = 1
  /\ Len(mon.emitted) = 1

\* C19: a monitor cancelled before any probe was counted stops without a
\* summary object and without a division by the number of sent packets.
C19_NoSummaryWithoutProbes ==
  (mon.pc = "stopped" /\ mon.stats.sent = 0)
    => (mon.emitted = << >> /\ mon.exc = "none")

C19_Witness ==
  mon.pc = "stopped" /\ mon.interrupted /\ mon.stats.sent = 0

\* C20: the stability_score of an emitted summary is GOOD exactly when no
\* packet was lost and the average jitter is at most 5, and POOR otherwise.
C20_StabilityScore ==
  \A k \in 1 .. Len(mon.emitted) :
    LET jv == mon.stats.jitter_values
        good == /\ mon.stats.sent - mon.stats.received = 0
                /\ (jv = << >> \/ Sum(jv) <= 5 * Len(jv))
    IN mon.emitted[k].stability_score = (IF good THEN "GOOD" ELSE "POOR")

C20_Witness ==
  /\ Len(mon.emitted) = 1
  /\ mon.emitted[1].stability_score = "GOOD"
  /\ mon.stats.jitter_values = << 5 >>

\* ------------------------------------------------------- generate_report
\* the non-baseline results whose spike percentage is more than 5 below the
\* baseline's
Improved(rs) ==
  {k \in 2 .. Len(rs) :
     rs[1].spike_percentage - rs[k].spike_percentage > 50}

\* the position in the result list of the result named n
ResultIndex(rs, n) == CHOOSE k \in 1 .. Len(rs) : rs[k].setting_name = n

\* C11: the report recommends a non-baseline experiment exactly when the
\* baseline's spike percentage minus the experiment's is greater than 5, in
\* experiment order, and states the difference with one decimal
\* (30 against 5 gives "25.0%").
C11_Recommendations ==
  report # NoReport =>
    LET recs == report[1].recommendations
    IN /\ Len(recs) = Cardinality(Improved(results))
       /\ \A k \in 2 .. Len(results) :
            (\E j \in 1 .. Len(recs) :
               recs[j].setting = results[k].setting_name)
              <=> k \in Improved(results)
       /\ \A j1, j2 \in 1 .. Len(recs) :
            j1 < j2 => ResultIndex(results, recs[j1].setting)
                         < ResultIndex(results, recs[j2].setting)
       /\ \A j \in 1 .. Len(recs) :
            LET r == results[ResultIndex(results, recs[j].setting)]
                d == results[1].spike_percentage - r.spike_percentage
            IN /\ recs[j].spike_reduction
                    = ToString(d \div 10) \o "." \o ToString(d % 10) \o "%"
               /\ (results[1].spike_percentage = 300
                   /\ r.spike_percentage = 50)
                    => recs[j].spike_reduction = "25.0%"

C11_Witness ==
  /\ report # NoReport
  /\ Len(results) = 4
  /\ results[1].spike_percentage = 300
  /\ results[2].spike_percentage = 250
  /\ results[3].spike_percentage = 50
  /\ results[4].spike_percentage = 200
  /\ Len(report[1].recommendations) = 2
  /\ report[1].recommendations[1].setting = "AWDL"
  /\ report[1].recommendations[1].spike_reduction = "25.0%"

\* the results with at least one successful probe
WithSuccess(rs) == {k \in 1 .. Len(rs) : rs[k].raw_rtts # << >>}

\* the entry names a result of the set c whose value of f is the least in c
BestAmong(rs, c, entry, f) ==
  /\ \E k \in c : rs[k].setting_name = entry.setting /\ rs[k][f] = entry.value
  /\ \A k \in c : entry.value <= rs[k][f]

\* C12: the best_* entries are the minima over exactly the experiments with
\* at least one successful probe.
C12_BestAmongSuccessful ==
  report # NoReport =>
    LET c == WithSuccess(results)
        a == report[1].analysis
    IN IF c = {} THEN a = << >>
       ELSE /\ a # << >>
            /\ BestAmong(results, c, a[1].best_avg_latency, "avg_latency_ms")
            /\ BestAmong(results, c, a[1].best_spike_rate, "spike_percentage")
            /\ BestAmong(results, c, a[1].best_jitter, "avg_jitter_ms")

\* ------------------------------------------------- the report of a run
\* C23 (as stated): the report is built at most once, only after the whole
\* battery and a completed restore, and a run ended by cancellation or by an
\* unhandled error has built no report.
C23_NoReportOnCancelledRun ==
  /\ reports <= 1
  /\ reports >= 1
       => (Len(results) = Len(Battery(has_blueutil)) /\ restores >= 1)
  /\ (pc = "exited" /\ (sigint \/ exc # "none")) => reports = 0

\* C23 (amended): the report is built at most once, and at the moment it is
\* built the whole battery has been run, a restore has completed and neither
\* a cancellation nor an error has occurred; a run ended by an error has no
\* report. A cancellation delivered while generate_report prints its summary
\* ends the run with the report already built.
C23_ReportBuiltOnceAfterBattery ==
  /\ [](reports <= 1)
  /\ [](exc = "Error" => reports = 0)
  /\ [][reports' # reports
          => /\ pc = "report"
             /\ ~sigint /\ exc = "none"
             /\ Len(results) = Len(Battery(has_blueutil))
             /\ restores = 1
             /\ reports' = 1]_vars

C23_Witness ==
  /\ pc = "exited" /\ exit_code = 1 /\ sigint
  /\ reports = 1 /\ restores = 2
  /\ Len(results) = 5

\* ------------------------------------------------ restores and reverts
\* C24: a step of restore_original_states changes a host setting only to the
\* value captured for it, and leaves a setting without a captured value
\* unchanged.
C24_RestoreWritesOnlyCaptured ==
  [][(pc \in RestorePcs)
       => \A n \in AllNames :
            read_back(host', blueutil)[n] # read_back(host, blueutil)[n]
              => /\ n \in DOMAIN original_states
                 /\ original_states[n] = read_back(host', blueutil)[n]
  ]_vars

\* the settings the experiment probing at p disables before its probes
ExperimentDisables(p, hb) ==
  CASE p = "t1_probe" -> {}
    [] p = "t2_probe" -> {"TCP Delayed ACK"}
    [] p = "t3_probe" -> {"AWDL"}
    [] p = "t4_probe" -> {"Bluetooth"}
    [] p = "t5_probe" ->
         {"TCP Delayed ACK", "AWDL"} \cup (IF hb THEN {"Bluetooth"} ELSE {})

\* C25: at the first probe of an experiment the only settings whose live
\* value differs from the captured one are those the experiment disables.
C25_NoLeftoverPerturbation ==
  (pc \in ProbePcs /\ i = 0)
    => \A n \in AllNames :
         read_back(host, blueutil)[n] # original_states[n]
           => n \in ExperimentDisables(pc, has_blueutil)

\* --------------------------------------------- cancellation of the monitor
\* C26: when the cancellation handler of analyze_lan has run, sent - received
\* is the number of PACKET LOSS rows, and a summary written for a run without
\* such a row reports no packet loss.
C26_LossCountMatchesRows ==
  mon.pc = "stopped"
    => /\ mon.stats.sent - mon.stats.received
            = Cardinality(LossRows(mon.rows))
       /\ (mon.emitted # << >> /\ LossRows(mon.rows) = {})
            => /\ mon.emitted[1].packet_loss_pct = 0
               /\ mon.emitted[1].diagnosis # << "Packet Loss detected" >>

\* ------------------------------------------------------ recommendations
\* C27: every recommendation names an experiment with at least one
\* successful probe.
C27_RecommendedHasSuccess ==
  report # NoReport =>
    \A j \in 1 .. Len(report[1].recommendations) :
      results[ResultIndex(results, report[1].recommendations[j].setting)]
        .raw_rtts # << >>

\* ------------------------------------------------ the two jitter series
\* how often v occurs in seq
Count(seq, v) == Cardinality({k \in 1 .. Len(seq) : seq[k] = v})

\* C28: for every sequence of probe outcomes the jitter values accumulated
\* by analyze_lan and the jitter values run_ping_test computes from the
\* successful RTTs of the same sequence are the same multiset.
C28_SameJitterMultiset ==
  LET a == mon.stats.jitter_values
      b == jitter_list(SuccessRtts(mon.rows))
  IN \A v \in 0 .. Max(<< 0 >> \o a \o b) : Count(a, v) = Count(b, v)

\* ---------------------------------------------------- the probe batch
\* C21: run_ping_test runs one ping per iteration, every outcome is counted
\* once as an RTT or as a loss, a result is appended only after
\* PINGS_PER_TEST pings, and every result has
\* packets_sent = PINGS_PER_TEST = packets_lost + len(raw_rtts).
C21_FixedBatchNoRetry ==
  /\ [](/\ probe.issued = i
        /\ i <= PINGS_PER_TEST
        /\ probe.lost + Len(probe.rtts) = i)
  /\ [](\A k \in 1 .. Len(results) :
          /\ results[k].packets_sent = PINGS_PER_TEST
          /\ results[k].packets_sent
               = results[k].packets_lost + Len(results[k].raw_rtts))
  /\ [][results' # results
          => /\ probe.issued = PINGS_PER_TEST
             /\ Len(results') = Len(results) + 1]_vars

C21_Witness ==
  /\ Len(results) = 1
  /\ results[1].packets_lost >= 1
  /\ Len(results[1].raw_rtts) >= 1
  /\ results[1].setting_name = "Baseline"

\* ------------------------------------------------- failing commands
\* C22: an apply_setting statement, whether its command fails or not, issues
\* at most one command and is followed by the next statement of the battery
\* (the probes of its experiment, or the next experiment), with no error
\* raised; and a run that is neither cancelled nor hit by a probe error ends
\* with the whole battery in the results, one restore and the report.
C22_FailedMutationProceeds ==
  /\ [][(pc \in ApplyPcs /\ sigint' = sigint)
          => /\ pc' = NextPc(pc, has_blueutil)
             /\ writes' <= writes + 1
             /\ exc' = "none"
             /\ exit_code' = -1
             /\ results' = results]_vars
  /\ []((pc = "exited" /\ sudo_ok /\ ~sigint /\ exc = "none")
          => /\ exit_code = 0
             /\ Len(results) = Len(Battery(has_blueutil))
             /\ restores = 1
             /\ reports = 1)

C22_Witness ==
  /\ pc = "exited" /\ exit_code = 0 /\ ~sigint
  /\ Len(results) = 5 /\ restores = 1
  /\ configs[2] = {}
  /\ configs[5] = {"AWDL"}

====
